---- MODULE Spec2Model ----
(***************************************************************************)
(* Model of the client-side WebSocketManager (src/src/lib/websocket.ts):   *)
(* connection lifecycle with exponential-backoff reconnection, the         *)
(* listener registry (on/off/emit), the inbound message classifier and     *)
(* the sensor status / alert threshold rules.                              *)
(*                                                                         *)
(* Handlers are written as operators on a record of the manager's fields   *)
(* (Cur), composed the way the code composes the calls; every action       *)
(* installs the record a whole handler returns (Set).                      *)
(***************************************************************************)
EXTENDS Integers, Sequences, FiniteSets, TLC

VARIABLES
  ws,                \* this.ws: the transport handle, or NoSocket for null
  sockets,           \* readyState of every transport object the environment holds
  isConnecting,      \* this.isConnecting
  reconnectAttempts, \* this.reconnectAttempts
  timers,            \* pending setTimeout callbacks of scheduleReconnect (their delays)
  listeners,         \* this.listeners: event name -> ordered list of callbacks
  emitted,           \* history: the emit() calls made by the last handler, in order
  delays,            \* history: delays scheduled since the last successful open
  schedCalls,        \* history: scheduleReconnect() calls since the last successful open,
                     \* counted up to one past maxReconnectAttempts
  offed,             \* history: the last off(event, cb) not yet followed by on/off
  last,              \* history: the operation that produced this state
  received,          \* history: the payload the last message event carried
  transmitted,       \* history: what the last operation handed to WebSocket.send
  lastConn,          \* history: status of the last 'connection' event emitted
  uncaught           \* history: the last handler ended by an exception it did not catch

vars == <<ws, sockets, isConnecting, reconnectAttempts, timers, listeners,
          emitted, delays, schedCalls, offed, last, received, transmitted,
          lastConn, uncaught>>

----------------------------------------------------------------------------
(* Bounds of the model *)

MaxSockets == 2      \* transport objects alive at the same time
MaxListeners == 2    \* registrations held by the registry at the same time
MaxPending == 2      \* transports alive plus timers pending when a caller invokes connect()

(* Program constants *)

maxReconnectAttempts == 5
reconnectDelay == 1000

NoSocket == 0
SocketIds == 1..MaxSockets

\* A field that is absent or not a number: every comparison with it is false.
NaN == -1

----------------------------------------------------------------------------
(* Listener registry *)

\* Events that emit() is called with.
Events == {"connection", "sensor_data", "device_status", "alert", "heartbeat"}

\* Events listeners are registered for in the model.
RegEvents == {"connection", "sensor_data", "alert"}

\* Callback references held by UI code.  cbThrow raises when invoked.
Callbacks == {"cbA", "cbB", "cbThrow"}

Throws(cb) == cb = "cbThrow"

Count(seq, x) == Cardinality({i \in 1..Len(seq) : seq[i] = x})

IndexOf(seq, x) ==
  IF \E i \in 1..Len(seq) : seq[i] = x
  THEN CHOOSE i \in 1..Len(seq) : seq[i] = x /\ \A j \in 1..(i - 1) : seq[j] # x
  ELSE 0

\* splice(index) without the delete count: drops everything from index on.
RemoveFrom(seq, i) == SubSeq(seq, 1, i - 1)

RemoveAt(seq, i) == SubSeq(seq, 1, i - 1) \o SubSeq(seq, i + 1, Len(seq))

TotalRegs(reg) ==
  LET RECURSIVE Sum(_)
      Sum(S) == IF S = {} THEN 0
                ELSE LET e == CHOOSE x \in S : TRUE
                     IN Len(reg[e]) + Sum(S \ {e})
  IN Sum(Events)

\* Callbacks that call back into the registry while they run: cbOnce calls
\* off(event, cbOnce) for the event it is invoked for (a one-shot listener),
\* cbAdd calls on(event, cbA).
ReentrantCallbacks == {"cbOnce", "cbAdd"}

\* The list of the event after callback cb ran.
Invoke(cb, lst) ==
  CASE cb = "cbOnce" -> (IF IndexOf(lst, cb) > 0 THEN RemoveAt(lst, IndexOf(lst, cb)) ELSE lst)
    [] cb = "cbAdd" -> Append(lst, "cbA")
    [] OTHER -> lst

\* Array.prototype.forEach from index k: the length len is read once before
\* the first call, each index is looked up in the live array when its turn
\* comes, and the first callback that throws aborts the iteration.
RECURSIVE forEachFrom(_, _, _, _)
forEachFrom(lst, k, len, calls) ==
  IF k > len \/ k > Len(lst) THEN [calls |-> calls, threw |-> FALSE, after |-> lst]
  ELSE IF Throws(lst[k]) THEN [calls |-> Append(calls, lst[k]), threw |-> TRUE, after |-> lst]
  ELSE forEachFrom(Invoke(lst[k], lst), k + 1, len, Append(calls, lst[k]))

\* eventListeners.forEach(callback => callback(data))
forEachCallback(lst) == forEachFrom(lst, 1, Len(lst), <<>>)

\* emit(event, data): the exception of a callback leaves emit (s.exc).
emit(s, event, data) ==
  LET r == forEachCallback(s.listeners[event])
  IN [s EXCEPT !.emitted = Append(@, [event |-> event, data |-> data,
                                       calls |-> r.calls, threw |-> r.threw]),
               !.listeners[event] = r.after,
               !.lastConn = IF event = "connection" THEN data.status ELSE @,
               !.exc = r.threw]

\* off() that tests `index > 0` on the 0-based index: the head is never removed.
offKeepsHead(s, event, cb) ==
  LET lst == s.listeners[event]
      index == IndexOf(lst, cb)
  IN [s EXCEPT !.listeners[event] = IF index > 1 THEN RemoveAt(lst, index) ELSE lst,
               !.offed = <<[event |-> event, cb |-> cb, k |-> Count(lst, cb)]>>]

on(s, event, cb) ==
  [s EXCEPT !.listeners[event] = Append(@, cb),
            !.offed = <<>>]

off(s, event, cb) ==
  LET lst == s.listeners[event]
      index == IndexOf(lst, cb)
  IN [s EXCEPT !.listeners[event] = IF index > 0 THEN RemoveAt(lst, index) ELSE lst,
               !.offed = <<[event |-> event, cb |-> cb, k |-> Count(lst, cb)]>>]

----------------------------------------------------------------------------
(* Connection lifecycle *)

\* getConnectionStatus()
getConnectionStatus(s) ==
  IF s.ws = NoSocket THEN "disconnected"
  ELSE CASE s.sockets[s.ws] = "OPEN" -> "connected"
         [] s.sockets[s.ws] = "CONNECTING" -> "connecting"
         [] OTHER -> "disconnected"

\* scheduleReconnect() that raises 2 to the incremented counter.
scheduleReconnectDoubled(s) ==
  LET s0 == [s EXCEPT !.schedCalls = IF @ > maxReconnectAttempts THEN @ ELSE @ + 1]
  IN IF s0.reconnectAttempts >= maxReconnectAttempts
     THEN s0
     ELSE LET n == s0.reconnectAttempts + 1
              delay == reconnectDelay * 2 ^ n
          IN [s0 EXCEPT !.reconnectAttempts = n,
                        !.timers = Append(@, delay),
                        !.delays = Append(@, delay)]

\* scheduleReconnect() that gives up only above the cap (`>` for `>=`).
scheduleReconnectPastCap(s) ==
  LET s0 == [s EXCEPT !.schedCalls = IF @ > maxReconnectAttempts THEN @ ELSE @ + 1]
  IN IF s0.reconnectAttempts > maxReconnectAttempts
     THEN s0
     ELSE LET n == s0.reconnectAttempts + 1
              delay == reconnectDelay * 2 ^ (n - 1)
          IN [s0 EXCEPT !.reconnectAttempts = n,
                        !.timers = Append(@, delay),
                        !.delays = Append(@, delay)]

scheduleReconnect(s) ==
  LET s0 == [s EXCEPT !.schedCalls = IF @ > maxReconnectAttempts THEN @ ELSE @ + 1]
  IN IF s0.reconnectAttempts >= maxReconnectAttempts
     THEN s0
     ELSE LET n == s0.reconnectAttempts + 1
              delay == reconnectDelay * 2 ^ (n - 1)
          IN [s0 EXCEPT !.reconnectAttempts = n,
                        !.timers = Append(@, delay),
                        !.delays = Append(@, delay)]

\* The guard at the top of connect().
connectGuard(s) ==
  s.isConnecting \/ (s.ws # NoSocket /\ s.sockets[s.ws] = "CONNECTING")

FreeSocket(s) ==
  CHOOSE i \in SocketIds : s.sockets[i] = "NONE" /\ \A j \in 1..(i - 1) : s.sockets[j] # "NONE"

\* connect() whose catch block leaves isConnecting set.
connectKeepsFlag(s, built) ==
  IF connectGuard(s) THEN s
  ELSE LET s1 == [s EXCEPT !.isConnecting = TRUE]
       IN IF built
          THEN [s1 EXCEPT !.ws = FreeSocket(s), !.sockets[FreeSocket(s)] = "CONNECTING"]
          ELSE scheduleReconnect(s1)

\* connect(); built says whether `new WebSocket(wsUrl)` returned or threw.
connect(s, built) ==
  IF connectGuard(s) THEN s
  ELSE LET s1 == [s EXCEPT !.isConnecting = TRUE]
       IN IF built
          THEN [s1 EXCEPT !.ws = FreeSocket(s), !.sockets[FreeSocket(s)] = "CONNECTING"]
          ELSE scheduleReconnect([s1 EXCEPT !.isConnecting = FALSE])

\* onopen that does not reset the attempt counter.
onopenKeepsCounter(s) ==
  LET s1 == [s EXCEPT !.isConnecting = FALSE, !.delays = <<>>, !.schedCalls = 0]
  IN emit(s1, "connection", [status |-> "connected"])

onopen(s) ==
  LET s1 == [s EXCEPT !.isConnecting = FALSE, !.reconnectAttempts = 0,
                      !.delays = <<>>, !.schedCalls = 0]
  IN emit(s1, "connection", [status |-> "connected"])

onclose(s) ==
  LET s1 == [s EXCEPT !.isConnecting = FALSE, !.ws = NoSocket]
      s2 == emit(s1, "connection", [status |-> "disconnected"])
  IN IF s2.exc THEN s2 ELSE scheduleReconnect(s2)

\* The Event object the transport passes to its error handler.
ErrorEvent == [type |-> "error"]

\* onerror that schedules a reconnect as onclose does.
onerrorReconnects(s) ==
  LET s1 == [s EXCEPT !.isConnecting = FALSE]
      s2 == emit(s1, "connection", [status |-> "error", error |-> ErrorEvent])
  IN IF s2.exc THEN s2 ELSE scheduleReconnect(s2)

onerror(s) ==
  LET s1 == [s EXCEPT !.isConnecting = FALSE]
  IN emit(s1, "connection", [status |-> "error", error |-> ErrorEvent])

\* WebSocket.close(): a connecting or open transport starts closing.
closeSocket(socks, t) ==
  IF socks[t] \in {"CONNECTING", "OPEN"} THEN [socks EXCEPT ![t] = "CLOSING"] ELSE socks

\* disconnect() that closes the transport and keeps the handle.
disconnectKeepsHandle(s) ==
  IF s.ws # NoSocket
  THEN [s EXCEPT !.sockets = closeSocket(@, s.ws)]
  ELSE s

disconnect(s) ==
  IF s.ws # NoSocket
  THEN [s EXCEPT !.sockets = closeSocket(@, s.ws), !.ws = NoSocket]
  ELSE s

\* Messages UI code passes to send(); JSON.stringify throws on a cyclic one.
Outbound == {[body |-> "ping", cyclic |-> FALSE], [body |-> "self", cyclic |-> TRUE]}

\* send() that tests only that a handle is held.
sendIgnoresReadyState(s, message) ==
  IF s.ws # NoSocket
  THEN IF message.cyclic THEN [s EXCEPT !.exc = TRUE]
       ELSE [s EXCEPT !.transmitted = <<[to |-> s.ws, json |-> message.body]>>]
  ELSE s

\* send(message)
send(s, message) ==
  IF s.ws # NoSocket /\ s.sockets[s.ws] = "OPEN"
  THEN IF message.cyclic THEN [s EXCEPT !.exc = TRUE]
       ELSE [s EXCEPT !.transmitted = <<[to |-> s.ws, json |-> message.body]>>]
  ELSE s

----------------------------------------------------------------------------
(* Inbound messages *)

\* Timestamps as they appear on the wire, and the clock.
TsCanonical == "2024-01-01T00:00:00.000Z"
TsOffset == "2024-01-01T08:00:00+08:00"
TsInvalid == "not-a-date"
TsAbsent == ""
TsNow == "2024-06-01T12:00:00.000Z"

\* new Date(x).toISOString() on the timestamps above; "RangeError" when
\* the Date is invalid.
toISOString(ts) ==
  CASE ts = TsCanonical -> TsCanonical
    [] ts = TsOffset -> TsCanonical
    [] ts = TsNow -> TsNow
    [] OTHER -> "RangeError"

\* new Date(data.timestamp || Date.now()).toISOString()
stamp(ts) == toISOString(IF ts = TsAbsent THEN TsNow ELSE ts)

\* message.data missing from the envelope.
NoData == [absent |-> TRUE]

\* JS relational operators on a numeric field that may be undefined / NaN.
Lt(x, c) == x # NaN /\ x < c
Gt(x, c) == x # NaN /\ x > c

\* determineSensorStatus(data); sensor values are in tenths of their unit.
statusIssues(data) ==
     (IF Lt(data.temperature, 180) \/ Gt(data.temperature, 280) THEN <<"temperature">> ELSE <<>>)
  \o (IF Lt(data.ph, 65) \/ Gt(data.ph, 85) THEN <<"ph">> ELSE <<>>)
  \o (IF Lt(data.dissolvedOxygen, 50) THEN <<"oxygen">> ELSE <<>>)
  \o (IF Gt(data.ammonia, 5) THEN <<"ammonia">> ELSE <<>>)

\* determineSensorStatus() with `issues.length < 2` for warning.
determineSensorStatusStrict(data) ==
  LET issues == statusIssues(data)
  IN IF Len(issues) = 0 THEN "normal"
     ELSE IF Len(issues) < 2 THEN "warning"
     ELSE "critical"

determineSensorStatus(data) ==
  LET issues == statusIssues(data)
  IN IF Len(issues) = 0 THEN "normal"
     ELSE IF Len(issues) <= 2 THEN "warning"
     ELSE "critical"

ruleAlert(reading, idPrefix, type, text, value) ==
  [id |-> idPrefix, deviceMac |-> reading.deviceMac, type |-> type,
   severity |-> "critical", message |-> [text |-> text, value |-> value],
   timestamp |-> reading.timestamp, acknowledged |-> FALSE]

\* checkForAlerts() with the ammonia rule written `> 0.1`.
checkForAlertsLowAmmonia(reading) ==
     (IF Lt(reading.temperature, 150) \/ Gt(reading.temperature, 320)
      THEN <<ruleAlert(reading, "temp_alert", "temperature", "Critical temperature",
                       reading.temperature)>>
      ELSE <<>>)
  \o (IF Lt(reading.ph, 60) \/ Gt(reading.ph, 90)
      THEN <<ruleAlert(reading, "ph_alert", "ph", "Critical pH level", reading.ph)>>
      ELSE <<>>)
  \o (IF Lt(reading.dissolvedOxygen, 30)
      THEN <<ruleAlert(reading, "oxygen_alert", "oxygen", "Low dissolved oxygen",
                       reading.dissolvedOxygen)>>
      ELSE <<>>)
  \o (IF Gt(reading.ammonia, 1)
      THEN <<ruleAlert(reading, "ammonia_alert", "ammonia", "High ammonia level",
                       reading.ammonia)>>
      ELSE <<>>)

\* checkForAlerts(reading)
checkForAlerts(reading) ==
     (IF Lt(reading.temperature, 150) \/ Gt(reading.temperature, 320)
      THEN <<ruleAlert(reading, "temp_alert", "temperature", "Critical temperature",
                       reading.temperature)>>
      ELSE <<>>)
  \o (IF Lt(reading.ph, 60) \/ Gt(reading.ph, 90)
      THEN <<ruleAlert(reading, "ph_alert", "ph", "Critical pH level", reading.ph)>>
      ELSE <<>>)
  \o (IF Lt(reading.dissolvedOxygen, 30)
      THEN <<ruleAlert(reading, "oxygen_alert", "oxygen", "Low dissolved oxygen",
                       reading.dissolvedOxygen)>>
      ELSE <<>>)
  \o (IF Gt(reading.ammonia, 10)
      THEN <<ruleAlert(reading, "ammonia_alert", "ammonia", "High ammonia level",
                       reading.ammonia)>>
      ELSE <<>>)

\* A handler that stopped on an exception.
Raise(s) == [s EXCEPT !.exc = TRUE]

\* alerts.forEach(alert => this.emit('alert', alert))
RECURSIVE emitAlerts(_, _)
emitAlerts(s, alerts) ==
  IF alerts = <<>> \/ s.exc THEN s
  ELSE emitAlerts(emit(s, "alert", Head(alerts)), Tail(alerts))

\* handleSensorData() that emits the alerts of the reading before the reading.
handleSensorDataAlertsFirst(s, data, deviceMac) ==
  IF data = NoData \/ stamp(data.timestamp) = "RangeError" THEN Raise(s)
  ELSE LET sensorReading ==
             [id |-> "reading",
              deviceMac |-> IF deviceMac # "" THEN deviceMac ELSE data.deviceMac,
              timestamp |-> stamp(data.timestamp),
              temperature |-> data.temperature,
              ph |-> data.ph,
              dissolvedOxygen |-> data.dissolvedOxygen,
              turbidity |-> data.turbidity,
              ammonia |-> data.ammonia,
              nitrite |-> data.nitrite,
              nitrate |-> data.nitrate,
              status |-> determineSensorStatus(data)]
           s1 == emitAlerts(s, checkForAlerts(sensorReading))
       IN IF s1.exc THEN s1 ELSE emit(s1, "sensor_data", sensorReading)

handleSensorData(s, data, deviceMac) ==
  IF data = NoData \/ stamp(data.timestamp) = "RangeError" THEN Raise(s)
  ELSE LET sensorReading ==
             [id |-> "reading",
              deviceMac |-> IF deviceMac # "" THEN deviceMac ELSE data.deviceMac,
              timestamp |-> stamp(data.timestamp),
              temperature |-> data.temperature,
              ph |-> data.ph,
              dissolvedOxygen |-> data.dissolvedOxygen,
              turbidity |-> data.turbidity,
              ammonia |-> data.ammonia,
              nitrite |-> data.nitrite,
              nitrate |-> data.nitrate,
              status |-> determineSensorStatus(data)]
           s1 == emit(s, "sensor_data", sensorReading)
       IN IF s1.exc THEN s1 ELSE emitAlerts(s1, checkForAlerts(sensorReading))

handleDeviceStatus(s, data) ==
  IF data = NoData \/ stamp(data.timestamp) = "RangeError" THEN Raise(s)
  ELSE emit(s, "device_status",
            [mac |-> data.deviceMac, status |-> data.status,
             lastSeen |-> stamp(data.timestamp),
             batteryLevel |-> data.batteryLevel,
             signalStrength |-> data.signalStrength])

\* handleAlert() that stamps every alert critical, as checkForAlerts does.
handleAlertCritical(s, data) ==
  IF data = NoData \/ stamp(data.timestamp) = "RangeError" THEN Raise(s)
  ELSE emit(s, "alert",
            [id |-> IF data.id # "" THEN data.id ELSE "alert",
             deviceMac |-> data.deviceMac, type |-> data.type,
             severity |-> "critical", message |-> data.message,
             timestamp |-> stamp(data.timestamp), acknowledged |-> FALSE])

handleAlert(s, data) ==
  IF data = NoData \/ stamp(data.timestamp) = "RangeError" THEN Raise(s)
  ELSE emit(s, "alert",
            [id |-> IF data.id # "" THEN data.id ELSE "alert",
             deviceMac |-> data.deviceMac, type |-> data.type,
             severity |-> data.severity, message |-> data.message,
             timestamp |-> stamp(data.timestamp), acknowledged |-> FALSE])

\* handleHeartbeat() that also reports the device online through device_status.
handleHeartbeatAlsoStatus(s, data) ==
  IF data = NoData \/ stamp(data.timestamp) = "RangeError" THEN Raise(s)
  ELSE LET s1 == emit(s, "heartbeat",
                      [deviceMac |-> data.deviceMac, timestamp |-> stamp(data.timestamp),
                       status |-> "online"])
       IN IF s1.exc THEN s1
          ELSE emit(s1, "device_status",
                    [mac |-> data.deviceMac, status |-> "online",
                     lastSeen |-> stamp(data.timestamp),
                     batteryLevel |-> NaN, signalStrength |-> NaN])

handleHeartbeat(s, data) ==
  IF data = NoData \/ stamp(data.timestamp) = "RangeError" THEN Raise(s)
  ELSE emit(s, "heartbeat",
            [deviceMac |-> data.deviceMac, timestamp |-> stamp(data.timestamp),
             status |-> "online"])

\* handleMessage() whose switch has the heartbeat case as its default.
handleMessageDefaultHeartbeat(s, message) ==
  CASE message.type = "sensor_data" -> handleSensorData(s, message.data, message.deviceMac)
    [] message.type = "device_status" -> handleDeviceStatus(s, message.data)
    [] message.type = "alert" -> handleAlert(s, message.data)
    [] OTHER -> handleHeartbeat(s, message.data)

handleMessage(s, message) ==
  CASE message.type = "sensor_data" -> handleSensorData(s, message.data, message.deviceMac)
    [] message.type = "device_status" -> handleDeviceStatus(s, message.data)
    [] message.type = "alert" -> handleAlert(s, message.data)
    [] message.type = "heartbeat" -> handleHeartbeat(s, message.data)
    [] OTHER -> s

\* onmessage whose catch block reports the parse error as a connection error.
onmessageReportsError(s, raw) ==
  IF ~raw.parses
  THEN [emit(s, "connection", [status |-> "error", error |-> ErrorEvent]) EXCEPT !.exc = FALSE]
  ELSE [handleMessage(s, raw) EXCEPT !.exc = FALSE]

\* onmessage whose catch block treats the bad payload as a broken connection
\* and schedules a reconnect.
onmessageReconnects(s, raw) ==
  IF ~raw.parses THEN scheduleReconnect(s)
  ELSE LET s1 == handleMessage(s, raw)
       IN IF s1.exc THEN scheduleReconnect([s1 EXCEPT !.exc = FALSE]) ELSE s1

\* ws.onmessage: JSON.parse and handleMessage inside one try/catch.
onmessage(s, raw) ==
  IF ~raw.parses THEN s
  ELSE [handleMessage(s, raw) EXCEPT !.exc = FALSE]

----------------------------------------------------------------------------
(* Payloads delivered by the transport *)

sensorPayload(mac, ts, t, p, o, a) ==
  [deviceMac |-> mac, timestamp |-> ts, temperature |-> t, ph |-> p,
   dissolvedOxygen |-> o, turbidity |-> 30, ammonia |-> a,
   nitrite |-> 1, nitrate |-> 100]

envelope(type, mac, data) ==
  [parses |-> TRUE, type |-> type, deviceMac |-> mac, data |-> data]

Malformed == [parses |-> FALSE, type |-> "", deviceMac |-> "", data |-> NoData]

\* temperature 16, pH 7.0, DO 8, ammonia 0.1
ScenarioA == envelope("sensor_data", "M1", sensorPayload("M1", TsCanonical, 160, 70, 80, 1))
\* temperature 13, pH 9.5, DO 2, ammonia 1.2
ScenarioB == envelope("sensor_data", "", sensorPayload("M2", TsAbsent, 130, 95, 20, 12))

Messages ==
  { Malformed, ScenarioA, ScenarioB,
    envelope("sensor_data", "M1", NoData),
    envelope("device_status", "M1",
             [deviceMac |-> "M1", status |-> "online", timestamp |-> TsCanonical,
              batteryLevel |-> 80, signalStrength |-> -60]),
    envelope("alert", "M1",
             [id |-> "a1", deviceMac |-> "M1", type |-> "ph", severity |-> "warning",
              message |-> [text |-> "pH drifting", value |-> NaN],
              timestamp |-> TsOffset]),
    envelope("alert", "M1",
             [id |-> "error_1", deviceMac |-> "M1", type |-> "device_error",
              severity |-> "critical",
              message |-> [text |-> "Device error occurred", value |-> NaN],
              timestamp |-> TsCanonical]),
    envelope("heartbeat", "M1", [deviceMac |-> "M1", timestamp |-> TsInvalid]),
    envelope("heartbeat", "M1", [deviceMac |-> "M1", timestamp |-> TsAbsent]),
    envelope("status_update", "M1", [deviceMac |-> "M1", timestamp |-> TsCanonical]) }

Temperatures == {NaN, 130, 149, 150, 160, 179, 180, 280, 281, 320, 321}
PhValues == {NaN, 59, 60, 64, 65, 70, 85, 86, 90, 91, 95}
OxygenValues == {NaN, 20, 29, 30, 49, 50, 80}
AmmoniaValues == {NaN, 1, 5, 6, 10, 11, 12}

SensorGrid ==
  { envelope("sensor_data", "M1", sensorPayload("M1", TsCanonical, t, p, o, a)) :
      t \in Temperatures, p \in PhValues, o \in OxygenValues, a \in AmmoniaValues }

----------------------------------------------------------------------------
(* State plumbing *)

Cur ==
  [ws |-> ws, sockets |-> sockets, isConnecting |-> isConnecting,
   reconnectAttempts |-> reconnectAttempts, timers |-> timers,
   listeners |-> listeners, emitted |-> emitted, delays |-> delays,
   schedCalls |-> schedCalls, offed |-> offed, last |-> last,
   received |-> received, transmitted |-> transmitted, lastConn |-> lastConn,
   exc |-> FALSE]

\* The record a handler starts from.
Begin(op, t, kind) ==
  [Cur EXCEPT !.emitted = <<>>, !.received = <<>>, !.transmitted = <<>>,
              !.last = [op |-> op, t |-> t, kind |-> kind]]

Set(s) ==
  /\ ws' = s.ws
  /\ sockets' = s.sockets
  /\ isConnecting' = s.isConnecting
  /\ reconnectAttempts' = s.reconnectAttempts
  /\ timers' = s.timers
  /\ listeners' = s.listeners
  /\ emitted' = s.emitted
  /\ delays' = s.delays
  /\ schedCalls' = s.schedCalls
  /\ offed' = s.offed
  /\ last' = s.last
  /\ received' = s.received
  /\ transmitted' = s.transmitted
  /\ lastConn' = s.lastConn
  /\ uncaught' = s.exc

\* Field initialisers of the class.
Fields ==
  [ws |-> NoSocket, sockets |-> [i \in SocketIds |-> "NONE"], isConnecting |-> FALSE,
   reconnectAttempts |-> 0, timers |-> <<>>,
   listeners |-> [e \in Events |-> <<>>], emitted |-> <<>>, delays |-> <<>>,
   schedCalls |-> 0, offed |-> <<>>,
   last |-> [op |-> "new", t |-> NoSocket, kind |-> ""],
   received |-> <<>>, transmitted |-> <<>>, lastConn |-> "none", exc |-> FALSE]

Start(s) ==
  /\ ws = s.ws
  /\ sockets = s.sockets
  /\ isConnecting = s.isConnecting
  /\ reconnectAttempts = s.reconnectAttempts
  /\ timers = s.timers
  /\ listeners = s.listeners
  /\ emitted = s.emitted
  /\ delays = s.delays
  /\ schedCalls = s.schedCalls
  /\ offed = s.offed
  /\ last = s.last
  /\ received = s.received
  /\ transmitted = s.transmitted
  /\ lastConn = s.lastConn
  /\ uncaught = s.exc

\* What a call of connect() does about the transport: returns at the guard,
\* constructs it, or catches the exception of its constructor.
Outcome(s, built) ==
  IF connectGuard(s) THEN "guarded" ELSE IF built THEN "built" ELSE "threw"

\* new WebSocketManager(): the constructor calls connect().
Init ==
  \E built \in BOOLEAN :
     Start(connect([Fields EXCEPT !.last.kind = Outcome(Fields, built)], built))

\* A transport object can be created for this call of connect().
CanBuild(s, built) == connectGuard(s) \/ ~built \/ \E i \in SocketIds : s.sockets[i] = "NONE"

----------------------------------------------------------------------------
(* Actions *)

\* The open event of transport t.
OnOpen(t) ==
  /\ sockets[t] = "CONNECTING"
  /\ Set(onopen([Begin("onopen", t, IF reconnectAttempts > 0 THEN "reopen" ELSE "open")
                   EXCEPT !.sockets[t] = "OPEN"]))

\* A message event of transport t.
OnMessage(t, raw) ==
  /\ sockets[t] = "OPEN"
  /\ Set(onmessage([Begin("onmessage", t, IF raw.parses THEN raw.type ELSE "malformed")
                      EXCEPT !.received = <<raw>>], raw))

\* The error event of transport t: the connection failed (FAILED), or it was
\* closed before it was established (ABORTED); its close event follows.
OnError(t) ==
  /\ sockets[t] \in {"CONNECTING", "OPEN", "CLOSING"}
  /\ Set(onerror([Begin("onerror", t, "") EXCEPT
                   !.sockets[t] = IF @ = "CLOSING" THEN "ABORTED" ELSE "FAILED"]))

\* The close event of transport t.
OnClose(t) ==
  /\ sockets[t] \in {"CONNECTING", "OPEN", "CLOSING", "FAILED", "ABORTED"}
  /\ Set(onclose([Begin("onclose", t,
                         IF reconnectAttempts < maxReconnectAttempts THEN "below" ELSE "cap")
                    EXCEPT !.sockets[t] = "NONE"]))

\* The i-th pending reconnect timer fires and runs connect().
TimerFire(i, built) ==
  /\ i \in 1..Len(timers)
  /\ CanBuild(Cur, built)
  /\ Set(connect([Begin("timer", NoSocket, Outcome(Cur, built)) EXCEPT
                   !.timers = RemoveAt(@, i)], built))

Disconnect ==
  /\ ws \in SocketIds \cup {NoSocket}
  /\ Set(disconnect(Begin("disconnect", ws, "")))

On(event, cb) ==
  /\ TotalRegs(listeners) < MaxListeners
  /\ Set(on(Begin("on", NoSocket, ""), event, cb))

Off(event, cb) ==
  /\ event \in Events
  /\ Set(off(Begin("off", NoSocket, ""), event, cb))

Send(message) ==
  /\ message \in Outbound
  /\ Set(send(Begin("send", ws, getConnectionStatus(Cur)), message))

\* connect() invoked by a caller of the manager.
CallConnect(built) ==
  /\ CanBuild(Cur, built)
  /\ Set(connect(Begin("connect", ws, getConnectionStatus(Cur)), built))

Next ==
  \/ \E t \in SocketIds : OnOpen(t)
  \/ \E t \in SocketIds : \E raw \in Messages : OnMessage(t, raw)
  \/ \E t \in SocketIds : OnError(t)
  \/ \E t \in SocketIds : OnClose(t)
  \/ \E i \in 1..Len(timers) : \E built \in BOOLEAN : TimerFire(i, built)
  \/ Disconnect
  \/ \E event \in RegEvents : \E cb \in Callbacks : On(event, cb)
  \/ \E event \in RegEvents : \E cb \in Callbacks : Off(event, cb)
  \/ \E message \in Outbound : Send(message)

Spec == Init /\ [][Next]_vars

\* Transports that still deliver events, and reconnect timers not yet fired.
Pending == Cardinality({t \in SocketIds : sockets[t] # "NONE"}) + Len(timers)

\* The connection lifecycle alone, with connect() also callable from outside.
NextConnect ==
  \/ \E t \in SocketIds : OnOpen(t)
  \/ \E t \in SocketIds : OnError(t)
  \/ \E t \in SocketIds : OnClose(t)
  \/ \E i \in 1..Len(timers) : \E built \in BOOLEAN : TimerFire(i, built)
  \/ Disconnect
  \/ Pending < MaxPending /\ \E built \in BOOLEAN : CallConnect(built)

SpecConnect == Init /\ [][NextConnect]_vars

----------------------------------------------------------------------------
(* Threshold rules on a connected manager: every reading of the grid *)

SensorRegistries ==
  { [Fields.listeners EXCEPT !["sensor_data"] = <<"cbA">>],
    [Fields.listeners EXCEPT !["sensor_data"] = <<"cbA">>, !["alert"] = <<"cbB">>],
    [Fields.listeners EXCEPT !["sensor_data"] = <<"cbThrow">>, !["alert"] = <<"cbA">>],
    [Fields.listeners EXCEPT !["alert"] = <<"cbThrow", "cbA">>] }

\* The manager after its first transport opened and UI code registered listeners.
Connected(reg) ==
  [Fields EXCEPT !.ws = 1, !.sockets[1] = "OPEN", !.listeners = reg,
                 !.lastConn = "connected",
                 !.last = [op |-> "on", t |-> NoSocket, kind |-> ""]]

InitSensors == \E reg \in SensorRegistries : Start(Connected(reg))

\* One reading per run: the handler reads nothing an earlier message left behind.
NextSensors ==
  emitted = <<>> /\ \E t \in SocketIds : \E raw \in SensorGrid : OnMessage(t, raw)

SpecSensors == InitSensors /\ [][NextSensors]_vars

----------------------------------------------------------------------------
(* Listeners that register and unregister while an event is dispatched *)

MaxRegistered == 3   \* callbacks registered for one event

\* Every list of at most MaxRegistered callbacks.
CallbackLists ==
  UNION {[1..n -> Callbacks \cup ReentrantCallbacks] : n \in 0..MaxRegistered}

\* A connected manager with any such list registered for sensor_data.
InitReentrant ==
  \E lst \in CallbackLists : \E als \in {<<>>, <<"cbOnce", "cbA">>} :
     Start(Connected([Fields.listeners EXCEPT !["sensor_data"] = lst, !["alert"] = als]))

\* One message per run.
NextReentrant ==
  emitted = <<>> /\ received = <<>> /\ \E t \in SocketIds : \E raw \in Messages : OnMessage(t, raw)

SpecReentrant == InitReentrant /\ [][NextReentrant]_vars

----------------------------------------------------------------------------
(* Reconnection against an endpoint that accepts every attempt *)

\* Open transports close unexpectedly, every attempt constructs its transport
\* and the transport opens; UI code registers and unregisters connection
\* listeners; disconnect() is not called.
NextLive ==
  \/ \E t \in SocketIds : OnOpen(t)
  \/ \E t \in SocketIds : sockets[t] = "OPEN" /\ OnClose(t)
  \/ \E i \in 1..Len(timers) : TimerFire(i, TRUE)
  \/ \E cb \in Callbacks : On("connection", cb)
  \/ \E cb \in Callbacks : Off("connection", cb)

\* Timers fire (setTimeout) and the endpoint answers a connecting transport.
SpecLive ==
  /\ Init
  /\ [][NextLive]_vars
  /\ WF_vars(\E i \in 1..Len(timers) : TimerFire(i, TRUE))
  /\ WF_vars(\E t \in SocketIds : OnOpen(t))

----------------------------------------------------------------------------
(* Properties *)

Min(a, b) == IF a < b THEN a ELSE b

Range(seq) == {seq[i] : i \in 1..Len(seq)}

BackoffTable == <<1000, 2000, 4000, 8000, 16000>>

\* Transports that are connecting or open.
Active == {t \in SocketIds : sockets[t] \in {"CONNECTING", "OPEN"}}

\* C1: since the last successful open, the n-th reconnect scheduled has delay
\* 1000 * 2^(n-1) (1000, 2000, 4000, 8000, 16000), a pending timer carries
\* the delay scheduled last, and once five reconnects were scheduled a
\* further call of scheduleReconnect arms no timer.
C1_BackoffSchedule ==
  /\ delays = SubSeq(BackoffTable, 1, Min(schedCalls, maxReconnectAttempts))
  /\ \A i \in 1..Len(timers) : Len(delays) > 0 /\ timers[i] = delays[Len(delays)]
  /\ (schedCalls > maxReconnectAttempts => timers = <<>>)

\* Five reconnects were scheduled and the sixth failure scheduled none.
C1_Witness ==
  schedCalls = maxReconnectAttempts + 1 /\ Len(delays) = maxReconnectAttempts /\ timers = <<>>

\* C2: connect() invoked while the manager is Connecting or Connected is a
\* no-op: no transport is constructed, the handle is not replaced, the
\* attempt counter and the connecting flag are unchanged.
C2_ConnectIsNoOpWhenActive ==
  [][(last'.op = "connect"
        /\ (isConnecting \/ getConnectionStatus(Cur) \in {"connecting", "connected"}))
      => UNCHANGED <<ws, sockets, isConnecting, reconnectAttempts>>]_vars

\* C3: at most one transport is connecting or open at a time, and a reconnect
\* timer that creates a transport fires when no connection attempt is in flight.
C3_SingleTransport ==
  /\ [](Cardinality(Active) <= 1)
  /\ [][(last'.op = "timer" /\ sockets' # sockets)
          => (~isConnecting /\ \A t \in SocketIds : sockets[t] # "CONNECTING")]_vars

\* A reconnect timer fired after a repeated failure and created the transport
\* the manager now holds.
C3_Witness ==
  /\ last.op = "timer" /\ reconnectAttempts >= 2
  /\ ws # NoSocket /\ sockets[ws] = "CONNECTING" /\ Cardinality(Active) = 1

\* C4: the close event of a transport that disconnect() closed arms no
\* reconnect timer.
C4_IntentionalCloseSchedulesNothing ==
  [][\A t \in SocketIds :
        (sockets[t] \in {"CLOSING", "ABORTED"} /\ sockets'[t] = "NONE")
        => timers' = timers]_vars

\* C5: disconnect() cancels a pending reconnect timer: none is pending when
\* it returns.
C5_DisconnectCancelsTimer ==
  last.op = "disconnect" => timers = <<>>

\* C6 as stated: after off(event, cb), an emit of event never invokes cb.
C6_OffThenEmitNeverInvokes ==
  offed # <<>> =>
    \A i \in 1..Len(emitted) :
       emitted[i].event = offed[1].event => offed[1].cb \notin Range(emitted[i].calls)

\* C6 amended: after off(event, cb), with no on() in between, an emit of event
\* invokes cb at most k-1 times, k being the number of registrations of cb for
\* event before the off; it never invokes cb when k <= 1.
C6_OffRemovesOneRegistration ==
  offed # <<>> =>
    \A i \in 1..Len(emitted) :
       emitted[i].event = offed[1].event =>
         Count(emitted[i].calls, offed[1].cb) <= (IF offed[1].k = 0 THEN 0 ELSE offed[1].k - 1)

\* off() removed the only registration of a callback and a later emit of the
\* event ran the remaining listener.
C6_Witness ==
  /\ offed # <<>> /\ offed[1].k = 1
  /\ \E i \in 1..Len(emitted) :
        emitted[i].event = offed[1].event /\ emitted[i].calls # <<>>

\* C7: every emit invokes exactly the callbacks registered for its event,
\* once per registration, in registration order.
C7_EmitInvokesRegistrationsInOrder ==
  \A i \in 1..Len(emitted) : emitted[i].calls = listeners[emitted[i].event]

\* C8: when a callback throws, the callbacks registered after it are still
\* invoked by that emit, and a sensor_data message still emits every alert
\* derived from its reading.
C8_ThrowingCallbackIsIsolated ==
  /\ \A i \in 1..Len(emitted) :
        emitted[i].threw => Len(emitted[i].calls) = Len(listeners[emitted[i].event])
  /\ (last.op = "onmessage" /\ emitted # <<>> /\ emitted[1].event = "sensor_data")
       => Len(emitted) = 1 + Len(checkForAlerts(emitted[1].data))

\* The reading a sensor_data message produced, and the alert events after it.
ReadingEmitted ==
  last.op = "onmessage" /\ emitted # <<>> /\ emitted[1].event = "sensor_data"

AlertsEmitted == {emitted[i].data.type : i \in 2..Len(emitted)}

\* C9: every alert rule that fires for a reading is for a channel that
\* determineSensorStatus counts as an issue; so the alerts never outnumber the
\* issues, a normal reading has no alert and three alerts make it critical.
C9_AlertsAreStatusIssues ==
  ReadingEmitted =>
    LET r == emitted[1].data
        alerts == checkForAlerts(r)
        issues == statusIssues(r)
    IN /\ \A i \in 1..Len(alerts) : alerts[i].type \in Range(issues)
       /\ AlertsEmitted \subseteq Range(issues)
       /\ Len(alerts) <= Len(issues)
       /\ Len(emitted) - 1 <= Len(issues)
       /\ (r.status = "normal" => alerts = <<>> /\ Len(emitted) = 1)
       /\ (Len(alerts) >= 3 => r.status = "critical")

\* A reading that breaks all four alert rules: four alerts after a critical reading.
C9_Witness ==
  /\ ReadingEmitted /\ emitted[1].data.status = "critical"
  /\ Len(emitted) = 5
  /\ AlertsEmitted = {"temperature", "ph", "oxygen", "ammonia"}

\* The four status conditions, on values in tenths; an absent value meets none.
IssueCount(r) ==
    (IF r.temperature # NaN /\ ~(180 <= r.temperature /\ r.temperature <= 280) THEN 1 ELSE 0)
  + (IF r.ph # NaN /\ ~(65 <= r.ph /\ r.ph <= 85) THEN 1 ELSE 0)
  + (IF r.dissolvedOxygen # NaN /\ r.dissolvedOxygen < 50 THEN 1 ELSE 0)
  + (IF r.ammonia # NaN /\ r.ammonia > 5 THEN 1 ELSE 0)

\* No alert rule holds for the reading.
NoAlertRule(r) ==
  /\ r.temperature = NaN \/ (150 <= r.temperature /\ r.temperature <= 320)
  /\ r.ph = NaN \/ (60 <= r.ph /\ r.ph <= 90)
  /\ r.dissolvedOxygen = NaN \/ r.dissolvedOxygen >= 30
  /\ r.ammonia = NaN \/ r.ammonia <= 10

\* C10: the status of a reading is normal with no issue, warning with one or
\* two and critical with three or four of: temperature outside [18,28], pH
\* outside [6.5,8.5], dissolved oxygen < 5, ammonia > 0.5; the boundary values
\* are no issues; a reading that meets no alert rule emits no alert whatever
\* its status (16, 7.0, 8, 0.1 is a warning without alert).
C10_StatusFromIssueCount ==
  ReadingEmitted =>
    LET r == emitted[1].data
    IN /\ r.status = CASE IssueCount(r) = 0 -> "normal"
                       [] IssueCount(r) \in {1, 2} -> "warning"
                       [] OTHER -> "critical"
       /\ (r.temperature \in {180, 280} /\ r.ph \in {65, 85}
             /\ r.dissolvedOxygen = 50 /\ r.ammonia = 5) => r.status = "normal"
       /\ NoAlertRule(r) => Len(emitted) = 1
       /\ (r.temperature = 160 /\ r.ph = 70 /\ r.dissolvedOxygen = 80 /\ r.ammonia = 1)
            => (r.status = "warning" /\ Len(emitted) = 1)

\* The reading 16, 7.0, 8, 0.1 was delivered to a listener as a warning and
\* nothing else was emitted.
C10_Witness ==
  /\ ReadingEmitted /\ Len(emitted) = 1
  /\ emitted[1].data.temperature = 160 /\ emitted[1].data.ph = 70
  /\ emitted[1].data.dissolvedOxygen = 80 /\ emitted[1].data.ammonia = 1
  /\ emitted[1].data.status = "warning"
  /\ emitted[1].calls # <<>> /\ ~emitted[1].threw

\* The manager's own fields.
managerFields == <<ws, isConnecting, reconnectAttempts, timers, listeners>>

\* The alert rules that hold for a reading, in the order of the rule table.
RulesFired(r) ==
     (IF r.temperature # NaN /\ (r.temperature < 150 \/ r.temperature > 320)
      THEN <<"temperature">> ELSE <<>>)
  \o (IF r.ph # NaN /\ (r.ph < 60 \/ r.ph > 90) THEN <<"ph">> ELSE <<>>)
  \o (IF r.dissolvedOxygen # NaN /\ r.dissolvedOxygen < 30 THEN <<"oxygen">> ELSE <<>>)
  \o (IF r.ammonia # NaN /\ r.ammonia > 10 THEN <<"ammonia">> ELSE <<>>)

\* C11: the alert events of a sensor_data message are one per rule that holds,
\* all of severity critical, in the order temperature, ph, oxygen, ammonia
\* (four of them, in that order, when the reading breaks all four rules).
C11_OneCriticalAlertPerRuleInOrder ==
  ReadingEmitted =>
    /\ \A i \in 2..Len(emitted) :
          emitted[i].event = "alert" /\ emitted[i].data.severity = "critical"
    /\ [i \in 1..(Len(emitted) - 1) |-> emitted[i + 1].data.type]
         = RulesFired(emitted[1].data)

\* C12: send() hands the message to the transport only when the manager is
\* Connected; otherwise nothing is transmitted and no exception leaves it; it
\* never changes the manager; nothing is transmitted by any other operation.
C12_SendOnlyWhenConnected ==
  /\ [][last'.op = "send" =>
          /\ UNCHANGED <<managerFields, sockets>>
          /\ \A i \in 1..Len(transmitted') :
                getConnectionStatus(Cur) = "connected" /\ transmitted'[i].to = ws
          /\ (getConnectionStatus(Cur) # "connected" => transmitted' = <<>> /\ ~uncaught')]_vars
  /\ [][transmitted' # <<>> => last'.op = "send" /\ Len(transmitted') = 1]_vars

\* send() was called on a manager that is not Connected and dropped the message.
C12_Witness ==
  /\ last.op = "send" /\ last.kind # "connected"
  /\ transmitted = <<>> /\ ~uncaught

\* The message can be dispatched: it parses, has a known type, a payload and a
\* timestamp a Date accepts.
Dispatchable(raw) ==
  /\ raw.parses
  /\ raw.type \in {"sensor_data", "device_status", "alert", "heartbeat"}
  /\ raw.data # NoData
  /\ raw.data.timestamp # TsInvalid

\* C13: a payload that fails JSON.parse invokes no listener, leaves handle,
\* connection state, counter and timers unchanged, and the next dispatchable
\* message on the connection is still emitted under its type.
C13_MalformedPayloadDropped ==
  /\ [][(last'.op = "onmessage" /\ last'.kind = "malformed") =>
          (emitted' = <<>> /\ ~uncaught' /\ UNCHANGED <<managerFields, sockets, lastConn>>)]_vars
  /\ [][(last.op = "onmessage" /\ last.kind = "malformed"
           /\ last'.op = "onmessage" /\ Dispatchable(received'[1])) =>
          (emitted' # <<>> /\ emitted'[1].event = received'[1].type)]_vars

\* A malformed payload was dropped on an open connection that has listeners.
C13_Witness ==
  /\ last.op = "onmessage" /\ last.kind = "malformed" /\ emitted = <<>>
  /\ sockets[last.t] = "OPEN" /\ ws = last.t
  /\ \E e \in Events : listeners[e] # <<>>

\* C14: a message of a type other than sensor_data, device_status, alert,
\* heartbeat emits no event and leaves the connection state unchanged.
C14_UnknownTypeDropped ==
  [][(last'.op = "onmessage" /\ received'[1].parses
        /\ received'[1].type \notin {"sensor_data", "device_status", "alert", "heartbeat"}) =>
       (emitted' = <<>> /\ UNCHANGED <<ws, sockets, isConnecting, reconnectAttempts, timers>>)]_vars

\* A status_update message was dropped while listeners were registered.
C14_Witness ==
  /\ last.op = "onmessage" /\ last.kind = "status_update" /\ emitted = <<>>
  /\ getConnectionStatus(Cur) = "connected"
  /\ \E e \in Events : listeners[e] # <<>>

\* scheduleReconnect() was called with the attempt counter at its cap.
PermanentFailure ==
  reconnectAttempts = maxReconnectAttempts /\ schedCalls > maxReconnectAttempts

\* C15: in the permanent-failure state the last connection event emitted has
\* status disconnected.
C15_PermanentFailureObservable ==
  PermanentFailure => lastConn = "disconnected"

\* C16: when the WebSocket constructor throws inside connect(), no exception
\* leaves connect(), the manager is Disconnected with the connecting flag
\* cleared, and the reconnect is scheduled as scheduleReconnect does for a
\* close: the next backoff delay below the cap, nothing at the cap.
C16_ConstructionFailureRecovered ==
  (last.op \in {"new", "timer"} /\ last.kind = "threw") =>
    /\ ~uncaught
    /\ ~isConnecting
    /\ getConnectionStatus(Cur) = "disconnected"
    /\ IF schedCalls <= maxReconnectAttempts
       THEN reconnectAttempts = schedCalls /\ timers = <<BackoffTable[reconnectAttempts]>>
       ELSE reconnectAttempts = maxReconnectAttempts /\ timers = <<>>

\* A reconnect attempt failed in the constructor and the third delay was scheduled.
C16_Witness ==
  /\ last.op = "timer" /\ last.kind = "threw"
  /\ reconnectAttempts = 3 /\ timers = <<4000>>

\* An alert message was handled and its Alert emitted.
AlertEmitted ==
  /\ last.op = "onmessage" /\ last.kind = "alert"
  /\ Len(emitted) = 1 /\ emitted[1].event = "alert"

\* The fields of an Alert other than its timestamp equal the payload's, and
\* it is not acknowledged.
AlertFieldsKept(a, p) ==
  /\ a.acknowledged = FALSE
  /\ a.id = p.id /\ a.deviceMac = p.deviceMac /\ a.type = p.type
  /\ a.severity = p.severity /\ a.message = p.message

\* C17 as stated: the Alert emitted for an alert message has acknowledged =
\* false and identifier, device, category, severity, message and timestamp
\* equal to the payload's.
C17_AlertRoundTrip ==
  AlertEmitted =>
    /\ AlertFieldsKept(emitted[1].data, received[1].data)
    /\ emitted[1].data.timestamp = received[1].data.timestamp

\* C17 amended: identifier, device, category, severity and message equal the
\* payload's and acknowledged is false; the timestamp equals the payload's
\* when that is in the UTC millisecond form toISOString produces, and a
\* timestamp with a zone offset is emitted as the same instant in that form.
C17_AlertRoundTripCanonical ==
  AlertEmitted =>
    /\ AlertFieldsKept(emitted[1].data, received[1].data)
    /\ (received[1].data.timestamp = "2024-01-01T00:00:00.000Z"
          => emitted[1].data.timestamp = "2024-01-01T00:00:00.000Z")
    /\ (received[1].data.timestamp = "2024-01-01T08:00:00+08:00"
          => emitted[1].data.timestamp = "2024-01-01T00:00:00.000Z")

\* An alert with a canonical timestamp reached a listener unchanged.
C17_Witness ==
  /\ AlertEmitted /\ emitted[1].calls # <<>>
  /\ received[1].data.timestamp = TsCanonical
  /\ emitted[1].data.timestamp = received[1].data.timestamp
  /\ emitted[1].data.severity = "critical" /\ emitted[1].data.id = "error_1"

\* C19: after every open event the manager is Connected on that transport,
\* the attempt counter is 0 and one connection event with status connected
\* was emitted; a reconnect scheduled from counter 0 has the base delay.
C19_OpenResetsBackoff ==
  /\ [](last.op = "onopen" =>
          /\ ws = last.t /\ getConnectionStatus(Cur) = "connected" /\ ~isConnecting
          /\ reconnectAttempts = 0
          /\ Len(emitted) = 1 /\ emitted[1].event = "connection"
          /\ emitted[1].data = [status |-> "connected"])
  /\ [][(last.op = "onopen" \/ lastConn = "connected") /\ Len(timers') > Len(timers) =>
          (timers'[Len(timers')] = reconnectDelay /\ reconnectAttempts' = 1)]_vars

\* A transport opened after at least one reconnect attempt and the counter is 0.
C19_Witness ==
  /\ last.op = "onopen" /\ last.kind = "reopen"
  /\ reconnectAttempts = 0 /\ getConnectionStatus(Cur) = "connected"

\* C20: every close event leaves the manager Disconnected with the handle
\* cleared, emits one connection event with status disconnected and, while
\* the attempt counter is below the cap, schedules exactly one reconnect.
C20_CloseSchedulesOneReconnect ==
  [][last'.op = "onclose" =>
       /\ ws' = NoSocket /\ ~isConnecting'
       /\ Len(emitted') = 1 /\ emitted'[1].event = "connection"
       /\ emitted'[1].data = [status |-> "disconnected"]
       /\ (reconnectAttempts < maxReconnectAttempts =>
             (Len(timers') = Len(timers) + 1 /\ reconnectAttempts' = reconnectAttempts + 1))]_vars


\* C21: an error event of a transport emits one connection event with status
\* error that carries the error; the handler leaves the transport handle, the
\* attempt counter and the pending timers as they were, so the handle is
\* cleared and the reconnect scheduled by the close event that follows.
C21_ErrorOnlyReports ==
  [][last'.op = "onerror" =>
       /\ Len(emitted') = 1 /\ emitted'[1].event = "connection"
       /\ emitted'[1].data = [status |-> "error", error |-> [type |-> "error"]]
       /\ UNCHANGED <<ws, reconnectAttempts, timers, schedCalls>>]_vars

\* The transport the manager holds failed while open: the error was reported
\* to a listener and the handle is still held.
C21_Witness ==
  /\ last.op = "onerror" /\ ws = last.t /\ sockets[ws] = "FAILED"
  /\ emitted[1].calls # <<>> /\ timers = <<>> /\ reconnectAttempts = 0


C23_OnePrimaryEventPerMessage ==
  (last.op = "onmessage" /\ Dispatchable(received[1])) =>
    /\ Len(emitted) >= 1 /\ Len(emitted) <= 5
    /\ emitted[1].event = received[1].type
    /\ \A i \in 2..Len(emitted) :
          /\ received[1].type = "sensor_data"
          /\ emitted[i].event = "alert"
          /\ emitted[i].data.id \in {"temp_alert", "ph_alert", "oxygen_alert", "ammonia_alert"}

\* A heartbeat without a timestamp of its own was handled: one heartbeat
\* event stamped with the clock, and nothing else.
C23_Witness ==
  /\ last.op = "onmessage" /\ last.kind = "heartbeat"
  /\ Len(emitted) = 1 /\ emitted[1].event = "heartbeat"
  /\ emitted[1].data.timestamp = TsNow


\* C24: when disconnect() returns, whatever the state it was called in, the
\* manager holds no transport, getConnectionStatus() is disconnected and a
\* send() that follows transmits nothing; disconnect() on a manager that
\* holds no transport changes none of its fields.
C24_DisconnectLeavesNoHandle ==
  /\ [](last.op = "disconnect" =>
          (ws = NoSocket /\ getConnectionStatus(Cur) = "disconnected" /\ ~uncaught))
  /\ [][(last.op = "disconnect" /\ last'.op = "send") =>
          (transmitted' = <<>> /\ ~uncaught')]_vars
  /\ [][(last'.op = "disconnect" /\ ws = NoSocket) =>
          UNCHANGED <<managerFields, sockets>>]_vars

\* disconnect() was called on a held transport, which is now closing.
C24_Witness ==
  /\ last.op = "disconnect" /\ last.t # NoSocket
  /\ sockets[last.t] = "CLOSING" /\ ws = NoSocket


\* C25: when a connection listener throws while the close handler emits the
\* disconnected event and the attempt counter is below the cap, the handler
\* still schedules the reconnect.
C25_ThrowingListenerStillReconnects ==
  [][(last'.op = "onclose" /\ last'.kind = "below" /\ emitted'[1].threw) =>
       (Len(timers') = Len(timers) + 1 /\ ~uncaught')]_vars


\* C26: a callback that is in the list of an event when emit starts, and of
\* which no registration is removed during the emit, is invoked once per
\* registration by an emit in which no callback throws.
C26_RegisteredCallbacksInvokedOnce ==
  [][(last'.op = "onmessage" /\ Len(emitted') = 1 /\ ~emitted'[1].threw) =>
       LET before == listeners[emitted'[1].event]
           after == listeners'[emitted'[1].event]
           calls == emitted'[1].calls
       IN \A cb \in Range(before) :
             Count(after, cb) >= Count(before, cb) => Count(calls, cb) = Count(before, cb)]_vars


\* C27: after a close event that found the attempt counter below the cap,
\* with timers firing, the endpoint accepting the attempt and no disconnect(),
\* the manager is eventually Connected again and has emitted a connection
\* event with status connected.
C27_ReconnectsAfterClose ==
  (last.op = "onclose" /\ last.kind = "below")
    ~> (getConnectionStatus(Cur) = "connected" /\ lastConn = "connected")


\* C28: in every reachable state the attempt counter is between 0 and
\* maxReconnectAttempts and at most one reconnect timer is pending.
C28_CounterAndTimerBounded ==
  /\ reconnectAttempts \in 0..maxReconnectAttempts
  /\ Len(timers) <= 1

\* The fifth reconnect is pending: the counter is at the cap.
C28_Witness ==
  /\ reconnectAttempts = maxReconnectAttempts /\ Len(timers) = 1
  /\ ws = NoSocket /\ ~isConnecting


\* C29: of the events emitted for a sensor_data message the first is the
\* sensor_data event with the reading, every alert event comes after it, and
\* every alert has the device identifier and the timestamp of the reading.
C29_ReadingBeforeItsAlerts ==
  (last.op = "onmessage" /\ last.kind = "sensor_data") =>
    \A i \in 1..Len(emitted) :
       /\ emitted[1].event = "sensor_data"
       /\ (i > 1 => emitted[i].event = "alert")
       /\ (emitted[i].event = "alert" =>
             /\ emitted[i].data.deviceMac = emitted[1].data.deviceMac
             /\ emitted[i].data.timestamp = emitted[1].data.timestamp)

\* The reading of device M2, stamped with the clock, reached a listener and
\* then its four alerts did, with the same device and timestamp.
C29_Witness ==
  /\ last.op = "onmessage" /\ last.kind = "sensor_data" /\ Len(emitted) = 5
  /\ emitted[1].calls # <<>> /\ emitted[5].calls # <<>>
  /\ emitted[1].data.deviceMac = "M2" /\ emitted[5].data.deviceMac = "M2"
  /\ emitted[1].data.timestamp = TsNow /\ emitted[5].data.timestamp = TsNow


====
